---- MODULE Spec2Model ----
(***************************************************************************)
(* DEEPSEEK-PROXY: the translation-and-relay engine of handlers.go and     *)
(* utils.go.                                                               *)
(*                                                                         *)
(*   RelaySpec      handleStreamingResponse / processStreamingData /       *)
(*                  convertStreamChunk after a successful streaming call   *)
(*   FairRelaySpec  the same with the scheduling the runtime guarantees    *)
(*   TranslateSpec  convertToDeepSeekRequest and the json.Marshal of the   *)
(*                  backend request                                        *)
(***************************************************************************)
EXTENDS Integers, Sequences, FiniteSets, TLC

VARIABLES
    \* ---- stream relay ----
    upstream,       \* the lines the backend sends on the response body
    pos,            \* lines handed out by scanner.Scan() so far
    pc,             \* position of the relay goroutine
    originalModel,  \* the model identifier the client asked for
    cancelled,      \* r.Context() is done (client went away)
    timedOut,       \* the http.Client Timeout of the backend call has fired
    bodyClosed,     \* resp.Body.Close() has run
    out,            \* what the relay has written to w, in order
    flushed,        \* how many of these writes flusher.Flush() has pushed out
    endedBy,        \* why processStreamingData returned
    outAtCancel,    \* history: Len(out) when the client cancelled (-1: not yet)
    pcAtCancel,     \* history: pc when the client cancelled
    scansAfterCancel, \* history: lines handed out by Scan after the cancel
    \* ---- request translation ----
    config,         \* GlobalConfig (DeepSeekModel)
    isCursor,       \* the User-Agent names Cursor
    clientReq,      \* history: the ChatRequest as readJSONRequest parsed it
    openaiReq,      \* the ChatRequest handleChatCompletions works on
    deepseekReq,    \* the DeepSeekRequest built by convertToDeepSeekRequest
    convErr,        \* the error convertToDeepSeekRequest returned
    wire,           \* the JSON object json.Marshal(deepseekReq) puts on the wire
    tpc,            \* position of the translation
    \* ---- the backend call and the answer to the client ----
    revision,       \* the revision of convertToOpenAIResponse that is built in
    cpc,            \* position of handleNormalResponse / handleStreamingResponse
    posts,          \* HTTP POSTs made to the backend for this request
    reply,          \* what the backend answered to the POST
    sendErr,        \* the error the transport function returned
    deepseekResp,   \* the DeepSeekResponse the transport function returned
    openaiResp,     \* the map convertToOpenAIResponse returned (nil: not run)
    clientGone,     \* the client has closed its connection
    w,              \* the http.ResponseWriter of the request
    \* ---- the inbound request ----
    httpReq,        \* the *http.Request handleChatCompletions is called with
    gpc,            \* position of handleChatCompletions before the translation
    checks,         \* history: the checks made on the request, in order
    \* ---- requests handled at the same time ----
    reqs,           \* the locals of each request's handler goroutine
    randSrc         \* the state of math/rand's global source

relayVars == <<upstream, pos, pc, originalModel, cancelled, timedOut,
               bodyClosed, out, flushed, endedBy, outAtCancel,
               pcAtCancel, scansAfterCancel>>
transVars == <<config, isCursor, clientReq, openaiReq, deepseekReq, convErr, wire, tpc>>
callVars == <<revision, cpc, posts, reply, sendErr, deepseekResp, openaiResp,
              clientGone, w>>
gateVars == <<httpReq, gpc, checks>>
concVars == <<reqs, randSrc>>
vars == <<relayVars, transVars, callVars, gateVars, concVars>>

\* ------------------------------------------------------------------------
\* Bounds
\* ------------------------------------------------------------------------
MaxLines == 3

\* ------------------------------------------------------------------------
\* JSON texts and Go maps
\* ------------------------------------------------------------------------
\* A text is [form, members]: form "object" carries its members as a
\* sequence of <<key, value>> pairs in the order they are written; the other
\* forms carry none.  "done" is the literal [DONE], "empty" the empty string,
\* "invalid" a text that is not JSON, "array" a JSON value that is no object.
Text(form, members) == [form |-> form, members |-> members]

\* A value of a member, in a text or in a map[string]interface{}: a string,
\* or a number.  The numbers of the model are integers next to 2^53, the
\* first integer a float64 cannot tell from its successor: Num(n) is
\* 2^53 + n.
Str(s) == [type |-> "string", v |-> s]
Num(n) == [type |-> "number", v |-> n]

\* the float64 nearest to 2^53 + n, as an offset from 2^53: exact up to
\* 2^53, the even integers above it, ties to the even mantissa
Float64(n) ==
    IF n <= 0 \/ n % 2 = 0 THEN n
    ELSE IF ((n - 1) \div 2) % 2 = 0 THEN n - 1 ELSE n + 1

\* json.Unmarshal of one value into an interface{}: a number becomes a
\* float64
DecodeValue(value) ==
    IF value.type = "number" THEN Num(Float64(value.v)) ELSE value

\* keys in the order encoding/json writes the keys of a map (sorted)
KeyOrder == <<"choices", "id", "model", "seq">>

NilMap == [present |-> FALSE, m |-> <<>>]

RECURSIVE MembersToMap(_)
MembersToMap(members) ==
    IF members = <<>> THEN [k \in {} |-> Str("")]
    ELSE LET n    == Len(members)
             rest == MembersToMap(SubSeq(members, 1, n - 1))
             k    == members[n][1]
         IN  [x \in (DOMAIN rest) \cup {k} |->
                 IF x = k THEN DecodeValue(members[n][2]) ELSE rest[x]]

\* json.Unmarshal([]byte(dataContent), &deepSeekChunk) for a
\* map[string]interface{}: an object fills the map (a repeated key keeps its
\* last value), the text null leaves the map nil without error, anything else
\* is an error.
Unmarshal(text) ==
    CASE text.form = "object" ->
            [ok |-> TRUE, map |-> [present |-> TRUE, m |-> MembersToMap(text.members)]]
      [] text.form = "null"   -> [ok |-> TRUE, map |-> NilMap]
      [] OTHER                -> [ok |-> FALSE, map |-> NilMap]

\* json.Marshal of a map[string]interface{}: null for a nil map, else an
\* object whose keys are sorted.
Marshal(map) ==
    IF ~map.present THEN Text("null", <<>>)
    ELSE LET keys == SelectSeq(KeyOrder, LAMBDA k : k \in DOMAIN map.m)
         IN  Text("object", [i \in 1..Len(keys) |-> <<keys[i], map.m[keys[i]]>>])

\* convertStreamChunk: "" when the payload does not parse, else the payload
\* re-serialised with "model" overwritten when the key exists.
convertStreamChunk(dataContent, model) ==
    LET u == Unmarshal(dataContent) IN
    IF ~u.ok THEN Text("empty", <<>>)
    ELSE IF u.map.present /\ "model" \in DOMAIN u.map.m
         THEN Marshal([present |-> TRUE,
                       m |-> [u.map.m EXCEPT !["model"] = Str(model)]])
         ELSE Marshal(u.map)

\* ------------------------------------------------------------------------
\* Upstream lines
\* ------------------------------------------------------------------------
\* A line as scanner.Text() returns it: the prefix up to and including the
\* optional single space after the colon, the rest of the line, and whether
\* the line is longer than the scanner's buffer (bufio.MaxScanTokenSize).
Line(prefix, body, long) == [prefix |-> prefix, body |-> body, long |-> long]

DataPrefix == "data: "

\* the backend writes "model" before "id"; encoding/json sorts the keys
Chunk1 == Text("object", << <<"model", Str("deepseek-chat")>>, <<"id", Str("c1")>>,
                            <<"seq", Num(1)>> >>)
ChunkNoModel == Text("object", << <<"id", Str("c3")>> >>)
Chunk4 == Text("object", << <<"id", Str("c4")>>, <<"model", Str("deepseek-chat")>> >>)
Chunk5 == Text("object", << <<"id", Str("c5")>>, <<"model", Str("deepseek-chat")>> >>)

LData1    == Line(DataPrefix, Chunk1, FALSE)
LNoModel  == Line(DataPrefix, ChunkNoModel, FALSE)
LBad      == Line(DataPrefix, Text("invalid", <<>>), FALSE)
LDone     == Line(DataPrefix, Text("done", <<>>), FALSE)
LBlank    == Line("", Text("empty", <<>>), FALSE)
LEvent    == Line("event: ", Text("text", <<>>), FALSE)
LNoSpace  == Line("data:", Chunk4, FALSE)
LLong     == Line(DataPrefix, Chunk5, TRUE)

Lines == {LData1, LNoModel, LBad, LDone, LBlank, LEvent, LNoSpace, LLong}

RECURSIVE SeqsUpTo(_, _)
SeqsUpTo(S, n) ==
    IF n = 0 THEN {<<>>}
    ELSE LET shorter == SeqsUpTo(S, n - 1)
         IN  shorter \cup {Append(s, x) : s \in {t \in shorter : Len(t) = n - 1}, x \in S}

ClientModels == {"gpt-4", "o3"}

\* what fmt.Fprintf writes to w
Frame(prefix, body, end) == [prefix |-> prefix, body |-> body, end |-> end]
SentinelFrame   == Frame("data: ", Text("done", <<>>), "\n\n")
DataFrame(body) == Frame("data: ", body, "\n\n")
RawFrame(line)  == Frame(line.prefix, line.body, "\n")

HasDataPrefix(line) == line.prefix = DataPrefix
IsBlank(line)       == line.prefix = "" /\ line.body.form = "empty"

\* ------------------------------------------------------------------------
\* The relay: handleStreamingResponse from the successful return of
\* sendStreamingRequestToDeepSeek on, and processStreamingData
\* ------------------------------------------------------------------------
\* an http.Client without Timeout
ClientTimeoutUnset == FALSE

\* createHTTPClient: Timeout: 60 * time.Second covers the whole exchange,
\* the reading of the response body included.
ClientTimeoutSet == TRUE

TransNotStarted ==
    /\ config = [DeepSeekModel |-> "deepseek-reasoner"]
    /\ isCursor = FALSE
    /\ clientReq = <<>>
    /\ openaiReq = <<>>
    /\ deepseekReq = <<>>
    /\ convErr = "nil"
    /\ wire = <<>>
    /\ tpc = "idle"

CallNotStarted ==
    /\ revision = "handlers.go"
    /\ cpc = "idle"
    /\ posts = 0
    /\ reply = <<>>
    /\ sendErr = <<>>
    /\ deepseekResp = <<>>
    /\ openaiResp = NilMap
    /\ clientGone = FALSE
    /\ w = <<>>

GateNotStarted ==
    /\ httpReq = <<>>
    /\ gpc = "idle"
    /\ checks = <<>>

ConcNotStarted ==
    /\ reqs = <<>>
    /\ randSrc = 0

RelayInit ==
    /\ upstream \in SeqsUpTo(Lines, MaxLines)
    /\ originalModel \in ClientModels
    /\ pos = 0
    /\ pc = "scan"
    /\ cancelled = FALSE
    /\ timedOut = FALSE
    /\ bodyClosed = FALSE
    /\ out = <<>>
    /\ flushed = 0
    /\ endedBy = "none"
    /\ outAtCancel = -1
    /\ pcAtCancel = "none"
    /\ scansAfterCancel = 0
    /\ TransNotStarted
    /\ CallNotStarted
    /\ GateNotStarted
    /\ ConcNotStarted

\* scanner.Scan() returns true with the next line
ScanLine ==
    /\ pc = "scan"
    /\ ~timedOut
    /\ pos < Len(upstream)
    /\ ~upstream[pos + 1].long
    /\ pos' = pos + 1
    /\ pc' = "select"
    /\ scansAfterCancel' = IF cancelled THEN scansAfterCancel + 1 ELSE scansAfterCancel
    /\ UNCHANGED <<upstream, originalModel, cancelled, timedOut, bodyClosed,
                   out, flushed, endedBy, outAtCancel, pcAtCancel, transVars, callVars, gateVars, concVars>>

\* scanner.Scan() returns false: the next line does not fit the buffer
\* (bufio.ErrTooLong); the loop is left and the function returns
ScanTooLong ==
    /\ pc = "scan"
    /\ ~timedOut
    /\ pos < Len(upstream)
    /\ upstream[pos + 1].long
    /\ pc' = "returned"
    /\ endedBy' = "err"
    /\ UNCHANGED <<upstream, pos, originalModel, cancelled, timedOut, bodyClosed,
                   out, flushed, outAtCancel, pcAtCancel, scansAfterCancel, transVars, callVars, gateVars, concVars>>

\* a relay that closes a stream that ended early with a sentinel of its own
ScanEndSentinel ==
    /\ pc = "scan"
    /\ ~timedOut
    /\ pos = Len(upstream)
    /\ pc' = "returned"
    /\ endedBy' \in {"eof", "err"}
    /\ out' = Append(out, SentinelFrame)
    /\ UNCHANGED <<upstream, pos, originalModel, cancelled, timedOut, bodyClosed,
                   flushed, outAtCancel, pcAtCancel, scansAfterCancel, transVars, callVars, gateVars, concVars>>

\* scanner.Scan() returns false: the body ended (io.EOF) or broke
ScanEnd ==
    /\ pc = "scan"
    /\ ~timedOut
    /\ pos = Len(upstream)
    /\ pc' = "returned"
    /\ endedBy' \in {"eof", "err"}
    /\ UNCHANGED <<upstream, pos, originalModel, cancelled, timedOut, bodyClosed,
                   out, flushed, outAtCancel, pcAtCancel, scansAfterCancel, transVars, callVars, gateVars, concVars>>

\* scanner.Scan() returns false: the read of the body fails because the
\* client's Timeout has expired
ScanTimedOut ==
    /\ pc = "scan"
    /\ timedOut
    /\ pc' = "returned"
    /\ endedBy' = "timeout"
    /\ UNCHANGED <<upstream, pos, originalModel, cancelled, timedOut, bodyClosed,
                   out, flushed, outAtCancel, pcAtCancel, scansAfterCancel, transVars, callVars, gateVars, concVars>>

\* the timer of http.Client{Timeout: 60s} fires
ClientTimeout ==
    /\ ClientTimeoutSet
    /\ ~timedOut
    /\ ~bodyClosed
    /\ timedOut' = TRUE
    /\ UNCHANGED <<upstream, pos, pc, originalModel, cancelled, bodyClosed,
                   out, flushed, endedBy, outAtCancel, pcAtCancel,
                   scansAfterCancel, transVars, callVars, gateVars, concVars>>

\* the client goes away: the server cancels r.Context()
ClientCancel ==
    /\ ~cancelled
    /\ pc # "done"
    /\ cancelled' = TRUE
    /\ outAtCancel' = Len(out)
    /\ pcAtCancel' = pc
    /\ UNCHANGED <<upstream, pos, pc, originalModel, timedOut, bodyClosed,
                   out, flushed, endedBy, scansAfterCancel, transVars, callVars, gateVars, concVars>>

\* a relay that never looks at ctx.Done()
SelectCtxUnchecked ==
    /\ pc = "select"
    /\ pc' = "process"
    /\ UNCHANGED <<upstream, pos, originalModel, cancelled, timedOut, bodyClosed,
                   out, flushed, endedBy, outAtCancel, pcAtCancel,
                   scansAfterCancel, transVars, callVars, gateVars, concVars>>

\* select { case <-ctx.Done(): return; default: ... }
SelectCtx ==
    /\ pc = "select"
    /\ IF cancelled
       THEN pc' = "returned" /\ endedBy' = "cancel"
       ELSE pc' = "process" /\ UNCHANGED endedBy
    /\ UNCHANGED <<upstream, pos, originalModel, cancelled, timedOut, bodyClosed,
                   out, flushed, outAtCancel, pcAtCancel, scansAfterCancel, transVars, callVars, gateVars, concVars>>

\* a relay that writes the sentinel and goes on reading
ProcessLineNoReturn(line, model) ==
    IF HasDataPrefix(line)
    THEN IF line.body.form = "done"
         THEN [write |-> <<SentinelFrame>>, stop |-> FALSE]
         ELSE IF line.body.form # "empty"
              THEN LET convertedData == convertStreamChunk(line.body, model)
                   IN  IF convertedData.form # "empty"
                       THEN [write |-> <<DataFrame(convertedData)>>, stop |-> FALSE]
                       ELSE [write |-> <<>>, stop |-> FALSE]
              ELSE [write |-> <<>>, stop |-> FALSE]
    ELSE IF IsBlank(line)
         THEN [write |-> <<>>, stop |-> FALSE]
         ELSE [write |-> <<RawFrame(line)>>, stop |-> FALSE]

\* the default branch of the select: what is written for one line, and
\* whether the function returns after it
ProcessLine(line, model) ==
    IF HasDataPrefix(line)
    THEN IF line.body.form = "done"
         THEN [write |-> <<SentinelFrame>>, stop |-> TRUE]
         ELSE IF line.body.form # "empty"
              THEN LET convertedData == convertStreamChunk(line.body, model)
                   IN  IF convertedData.form # "empty"
                       THEN [write |-> <<DataFrame(convertedData)>>, stop |-> FALSE]
                       ELSE [write |-> <<>>, stop |-> FALSE]
              ELSE [write |-> <<>>, stop |-> FALSE]
    ELSE IF IsBlank(line)
         THEN [write |-> <<>>, stop |-> FALSE]
         ELSE [write |-> <<RawFrame(line)>>, stop |-> FALSE]

Process ==
    /\ pc = "process"
    /\ LET r == ProcessLine(upstream[pos], originalModel)
       IN  /\ out' = out \o r.write
           /\ flushed' = IF r.write # <<>> THEN Len(out') ELSE flushed
           /\ IF r.stop
              THEN pc' = "returned" /\ endedBy' = "sentinel"
              ELSE pc' = "scan" /\ UNCHANGED endedBy
    /\ UNCHANGED <<upstream, pos, originalModel, cancelled, timedOut, bodyClosed,
                   outAtCancel, pcAtCancel, scansAfterCancel, transVars, callVars, gateVars, concVars>>

\* handleStreamingResponse returns: the deferred cancel() and
\* resp.Body.Close() run
HandlerReturn ==
    /\ pc = "returned"
    /\ bodyClosed' = TRUE
    /\ pc' = "done"
    /\ UNCHANGED <<upstream, pos, originalModel, cancelled, timedOut, out,
                   flushed, endedBy, outAtCancel, pcAtCancel, scansAfterCancel,
                   transVars, callVars, gateVars, concVars>>

RelayStep == SelectCtx \/ Process \/ HandlerReturn \/ ScanTimedOut \/ ScanTooLong

RelayNext ==
    \/ ScanLine
    \/ ScanTooLong
    \/ ScanEnd
    \/ ScanTimedOut
    \/ ClientTimeout
    \/ ClientCancel
    \/ SelectCtx
    \/ Process
    \/ HandlerReturn

RelaySpec == RelayInit /\ [][RelayNext]_vars

\* The goroutine of the handler keeps running and the timer of the HTTP
\* client fires; when the backend sends its next line, or ends the body, is
\* up to the backend.
FairRelayInit == RelayInit /\ originalModel = "gpt-4"

FairRelaySpec ==
    /\ FairRelayInit
    /\ [][RelayNext]_vars
    /\ WF_vars(RelayStep)
    /\ WF_vars(ClientTimeout)

\* ------------------------------------------------------------------------
\* Stream relay: properties
\* ------------------------------------------------------------------------
IsDataObjectLine(l) == HasDataPrefix(l) /\ l.body.form = "object"
IsMalformedLine(l)  == HasDataPrefix(l) /\ l.body.form = "invalid"

\* N >= 1 data lines carrying a JSON object, then the sentinel
WellFormedStream(u) ==
    /\ Len(u) >= 2
    /\ u[Len(u)] = LDone
    /\ \A i \in 1..(Len(u) - 1) : IsDataObjectLine(u[i])

\* the relay has run to its end, the client stayed and the backend call did
\* not time out
RanToEnd == pc = "done" /\ ~cancelled /\ ~timedOut

IdOf(text) == Unmarshal(text).map.m["id"]

\* frame f is the rewrite of line l: a data frame with the same id
RewriteOf(f, l) ==
    /\ f.prefix = "data: " /\ f.end = "\n\n"
    /\ f.body.form = "object"
    /\ IdOf(f.body) = IdOf(l.body)

CarriesModel(f, model) ==
    LET u == Unmarshal(f.body)
    IN  u.ok /\ u.map.present /\ "model" \in DOMAIN u.map.m /\ u.map.m["model"] = Str(model)

\* C1: for an upstream of N well-formed `data: ` JSON-object lines followed
\* by `data: [DONE]`, without cancellation, the relay writes exactly N data
\* frames in upstream order, each with model set to the client's requested
\* model, then exactly one sentinel frame.
C1_WellFormedStreamRelayed ==
    (RanToEnd /\ WellFormedStream(upstream)) =>
        /\ Len(out) = Len(upstream)
        /\ \A i \in 1..(Len(upstream) - 1) :
              /\ RewriteOf(out[i], upstream[i])
              /\ CarriesModel(out[i], originalModel)
        /\ out[Len(out)] = SentinelFrame

\* C2 as stated: once the client has cancelled, the relay performs no further
\* downstream write, and the upstream body is closed when the relay ends.
C2_NoWriteAfterCancel ==
    /\ cancelled => Len(out) = outAtCancel
    /\ pc = "done" => bodyClosed

\* C2 as amended: after the cancel the relay writes at most the frame of the
\* one line whose cancellation check had already passed when the signal
\* fired; a line checked after the signal is never written; the upstream body
\* is closed when the relay ends.
C2_AtMostPendingWriteAfterCancel ==
    /\ cancelled =>
          Len(out) <= outAtCancel + (IF pcAtCancel = "process" THEN 1 ELSE 0)
    /\ (cancelled /\ pc = "process") => pcAtCancel = "process"
    /\ pc = "done" => bodyClosed

C2_Witness ==
    /\ pc = "done" /\ bodyClosed
    /\ endedBy = "cancel"
    /\ outAtCancel = 1
    /\ pos < Len(upstream)

\* C3: once the client's cancellation has fired, the relay eventually stops
\* and the upstream body is eventually closed, also when it is blocked in a
\* read of a silent upstream; it takes at most one more line from the upstream
\* and never drains the rest.
C3_CancelLeadsToStop ==
    /\ cancelled ~> (pc = "done" /\ bodyClosed)
    /\ [](scansAfterCancel <= 1)

C3_Witness ==
    /\ pc = "done" /\ bodyClosed
    /\ cancelled /\ pcAtCancel = "scan"
    /\ scansAfterCancel = 0
    /\ pos < Len(upstream)

\* exactly one data line is malformed, the others carry JSON objects, and
\* the sentinel follows
OneMalformedStream(u) ==
    /\ Len(u) >= 2
    /\ u[Len(u)] = LDone
    /\ \A i \in 1..(Len(u) - 1) : IsDataObjectLine(u[i]) \/ IsMalformedLine(u[i])
    /\ Cardinality({i \in 1..(Len(u) - 1) : IsMalformedLine(u[i])}) = 1

\* the lines of u that are not malformed, in order
Healthy(u) == SelectSeq(u, LAMBDA l : ~IsMalformedLine(l))

\* C4: with exactly one malformed data line among N before the sentinel, the
\* relay writes the other N-1 rewritten frames in order and then the
\* sentinel, and nothing else.
C4_MalformedChunkDropped ==
    (RanToEnd /\ OneMalformedStream(upstream)) =>
        LET h == Healthy(upstream)
        IN  /\ Len(out) = Len(h)
            /\ \A i \in 1..(Len(h) - 1) : RewriteOf(out[i], h[i])
            /\ out[Len(out)] = SentinelFrame

\* the lines the relay has finished with
Handled == IF pc \in {"select", "process"} \/ endedBy = "cancel" THEN pos - 1 ELSE pos

SentinelWrites == {i \in 1..Len(out) : out[i] = SentinelFrame}

\* C5: at the first upstream line `data: [DONE]` the relay writes one
\* sentinel frame, flushes and stops; it never writes a second sentinel,
\* reads no line after the sentinel and writes nothing after it.
C5_StopsAtSentinel ==
    /\ Cardinality(SentinelWrites) <= 1
    /\ (\E j \in 1..Handled : upstream[j] = LDone) <=> SentinelWrites # {}
    /\ SentinelWrites # {} =>
          /\ out[Len(out)] = SentinelFrame
          /\ flushed = Len(out)
          /\ pc \in {"returned", "done"} /\ endedBy = "sentinel"
          /\ upstream[pos] = LDone
          /\ \A j \in 1..(pos - 1) : upstream[j] # LDone

C5_Witness ==
    /\ pc = "done" /\ endedBy = "sentinel"
    /\ pos < Len(upstream)
    /\ upstream[Len(upstream)] = LDone
    /\ Len(out) >= 2

\* C22: once the relay has started no timeout of the transport ends the
\* stream: an upstream that sends its lines and then the sentinel is relayed
\* up to the sentinel, however long it takes
HasSentinel(u) == \E i \in 1..Len(u) : u[i] = LDone
SentinelPos(u) == CHOOSE i \in 1..Len(u) : u[i] = LDone /\ \A j \in 1..(i - 1) : u[j] # LDone
C22_NoTimeoutEndsStream ==
    (/\ pc = "done"
     /\ ~cancelled
     /\ HasSentinel(upstream)
     /\ \A j \in 1..SentinelPos(upstream) : ~upstream[j].long) =>
        endedBy = "sentinel"

\* C25: when the upstream ends before a sentinel (end of stream or a read
\* error) the relay returns having written the frames of the lines it was
\* handed and nothing else, neither a sentinel nor an error frame, and the
\* upstream body is closed
RECURSIVE Relayed(_, _, _)
Relayed(u, n, model) ==
    IF n = 0 THEN <<>>
    ELSE Relayed(u, n - 1, model) \o ProcessLine(u[n], model).write
EndedEarly == pc = "done" /\ endedBy \in {"eof", "err", "timeout"}
C25_EarlyEndWritesNothingMore ==
    EndedEarly =>
        /\ out = Relayed(upstream, pos, originalModel)
        /\ \A i \in 1..Len(out) :
              /\ out[i] # SentinelFrame
              /\ \E j \in 1..pos : out[i] \in {RawFrame(upstream[j]),
                                              DataFrame(convertStreamChunk(upstream[j].body,
                                                                           originalModel))}
        /\ bodyClosed

C25_Witness ==
    /\ pc = "done"
    /\ endedBy = "err"
    /\ pos = 2
    /\ Len(out) = 2
    /\ out[2] # SentinelFrame
    /\ bodyClosed

\* C26: a blank line gives no write; every non-blank line without the data
\* prefix is written as it is and flushed, in its upstream position
IsOtherLine(l) == ~HasDataPrefix(l) /\ ~IsBlank(l)
IsRawFrame(f) == f.end = "\n"
SentUpTo(u) == IF HasSentinel(u) THEN SubSeq(u, 1, SentinelPos(u)) ELSE u
RawFrames(u) ==
    LET others == SelectSeq(u, IsOtherLine)
    IN  [i \in 1..Len(others) |-> RawFrame(others[i])]
C26_OtherLinesPassVerbatim ==
    RanToEnd =>
        /\ SelectSeq(out, IsRawFrame) = RawFrames(SentUpTo(upstream))
        /\ flushed = Len(out)

\* C27: for a data payload that is a JSON object the emitted payload has the
\* keys of the upstream payload and, for every key but model, its value;
\* model has the client's model
RECURSIVE Written(_)
Written(members) ==
    IF members = <<>> THEN [k \in {} |-> Str("")]
    ELSE LET n    == Len(members)
             rest == Written(SubSeq(members, 1, n - 1))
             k    == members[n][1]
         IN  [x \in (DOMAIN rest) \cup {k} |-> IF x = k THEN members[n][2] ELSE rest[x]]
LineProcessed == pc = "scan" /\ pos >= 1
C27_RewriteChangesOnlyModel ==
    (LineProcessed /\ IsDataObjectLine(upstream[pos])) =>
        /\ Len(out) >= 1
        /\ out[Len(out)].body.form = "object"
        /\ LET up   == Written(upstream[pos].body.members)
               down == Written(out[Len(out)].body.members)
           IN  /\ DOMAIN down = DOMAIN up
               /\ \A k \in DOMAIN up :
                     down[k] = IF k = "model" THEN Str(originalModel) ELSE up[k]

\* C28: every JSON payload written downstream that has a model has the
\* client's model, whether the upstream line began with "data: " or "data:"
C28_BackendModelNeverLeaks ==
    \A i \in 1..Len(out) :
        (out[i].body.form = "object" /\ "model" \in DOMAIN Written(out[i].body.members)) =>
            Written(out[i].body.members)["model"] = Str(originalModel)

\* ------------------------------------------------------------------------
\* Request translation: convertToDeepSeekRequest and its helpers
\* ------------------------------------------------------------------------
\* Go pointers (*float64, *int) are sequences of length 0 (nil) or 1.
\* Temperatures are counted in tenths: 7 is 0.7.
NilPtr == <<>>
Ptr(v) == <<v>>

ReasonerModel == "deepseek-reasoner"

\* newModelMapping of mapNewModelsToDeepSeek
newModelMapping ==
    [m \in {"o3", "o3-preview", "o3-mini", "o4-mini", "gpt-4o", "gpt-4",
            "gpt-3.5-turbo", "deepseek-chat", "deepseek-coder",
            "deepseek-reasoner"} |->
        CASE m \in {"o3", "o3-preview", "o3-mini", "o4-mini", "gpt-4o",
                    "deepseek-reasoner"}              -> "deepseek-reasoner"
          [] m \in {"gpt-4", "gpt-3.5-turbo", "deepseek-chat"} -> "deepseek-chat"
          [] m = "deepseek-coder"                     -> "deepseek-coder"]

mapNewModelsToDeepSeek(requestedModel) ==
    IF requestedModel \in DOMAIN newModelMapping
    THEN newModelMapping[requestedModel]
    ELSE "deepseek-reasoner"

\* MapModelName of utils.go: every listed model goes to the reasoner, an
\* unlisted one to GlobalConfig.DeepSeekModel.  convertToDeepSeekRequest
\* does not call it.
MapModelName(openaiModel, cfg) ==
    IF openaiModel \in DOMAIN newModelMapping
    THEN "deepseek-reasoner"
    ELSE cfg.DeepSeekModel

\* a Message and a ToolCall of the wire structs
Msg(role, content, reasoning, toolCalls, toolCallID, name) ==
    [Role |-> role, Content |-> content, ReasoningContent |-> reasoning,
     ToolCalls |-> toolCalls, ToolCallID |-> toolCallID, Name |-> name]
Call(id, type, name, arguments) ==
    [ID |-> id, Type |-> type, Function |-> [Name |-> name, Arguments |-> arguments]]

\* a normalization that leaves the legacy role as it is
convertMessagesFormatKeepRole(messages) ==
    [i \in 1..Len(messages) |->
        LET msg == messages[i] IN
        Msg(msg.Role, msg.Content, "",
            [j \in 1..Len(msg.ToolCalls) |->
                Call(msg.ToolCalls[j].ID, "function",
                     msg.ToolCalls[j].Function.Name,
                     msg.ToolCalls[j].Function.Arguments)],
            msg.ToolCallID,
            msg.Name)]

convertMessagesFormat(messages) ==
    [i \in 1..Len(messages) |->
        LET msg == messages[i] IN
        Msg(IF msg.Role = "function" THEN "tool" ELSE msg.Role,
            msg.Content,
            "",
            [j \in 1..Len(msg.ToolCalls) |->
                Call(msg.ToolCalls[j].ID, "function",
                     msg.ToolCalls[j].Function.Name,
                     msg.ToolCalls[j].Function.Arguments)],
            msg.ToolCallID,
            msg.Name)]

\* the interface{} of tool_choice: kind "nil", "string" (val the string),
\* "map" (val the value of its "type" key, "" when absent) or "number"
Choice(kind, val) == [kind |-> kind, val |-> val]

\* a classifier that lets every string through
convertToolChoicePassThrough(choice) ==
    IF choice.kind = "string" THEN choice.val ELSE "auto"

convertToolChoice(choice) ==
    IF choice.kind = "nil" THEN "auto"
    ELSE IF choice.kind = "string"
         THEN IF choice.val \in {"auto", "none"} THEN choice.val ELSE "auto"
         ELSE IF choice.kind = "map" /\ choice.val = "function"
              THEN "auto"
              ELSE "auto"

\* lines 271-284: the Temperature of the DeepSeekRequest, 0 being the zero
\* value of the float64 field that is left unset
DefaultTemperature == 7

\* a translation that copies the temperature for every model
TemperatureOfAnyModel(isReasoningModel, temperature) ==
    IF temperature # NilPtr THEN temperature[1] ELSE DefaultTemperature

TemperatureOf(isReasoningModel, temperature) ==
    IF ~isReasoningModel
    THEN IF temperature # NilPtr THEN temperature[1] ELSE DefaultTemperature
    ELSE 0

\* lines 287-290
MaxTokensOf(maxTokens) == IF maxTokens # NilPtr THEN maxTokens[1] ELSE 0

\* lines 293-310: Tools and ToolChoice
\* a normalization that appends the legacy functions to the tools
ToolsOfBoth(req) ==
    req.Tools \o [i \in 1..Len(req.Functions) |->
                     [Type |-> "function", Function |-> req.Functions[i]]]

ToolsOf(req) ==
    IF Len(req.Tools) > 0 THEN req.Tools
    ELSE IF Len(req.Functions) > 0
         THEN [i \in 1..Len(req.Functions) |->
                  [Type |-> "function", Function |-> req.Functions[i]]]
         ELSE <<>>

ToolChoiceOf(req) ==
    IF Len(req.Tools) > 0 \/ Len(req.Functions) > 0
    THEN convertToolChoice(req.ToolChoice)
    ELSE ""

\* a translation that rejects a model it does not know
convertToDeepSeekRequestStrict(req) ==
    LET deepseekModel    == mapNewModelsToDeepSeek(req.Model)
        isReasoningModel == deepseekModel = ReasonerModel
    IN  [req |-> [Model       |-> deepseekModel,
                  Messages    |-> convertMessagesFormat(req.Messages),
                  Stream      |-> req.Stream,
                  Temperature |-> TemperatureOf(isReasoningModel, req.Temperature),
                  MaxTokens   |-> MaxTokensOf(req.MaxTokens),
                  Tools       |-> ToolsOf(req),
                  ToolChoice  |-> ToolChoiceOf(req)],
         err |-> IF req.Model \in DOMAIN newModelMapping THEN "nil"
                 ELSE "unknown model"]

convertToDeepSeekRequest(req) ==
    LET deepseekModel    == mapNewModelsToDeepSeek(req.Model)
        isReasoningModel == deepseekModel = ReasonerModel
    IN  [req |-> [Model       |-> deepseekModel,
                  Messages    |-> convertMessagesFormat(req.Messages),
                  Stream      |-> req.Stream,
                  Temperature |-> TemperatureOf(isReasoningModel, req.Temperature),
                  MaxTokens   |-> MaxTokensOf(req.MaxTokens),
                  Tools       |-> ToolsOf(req),
                  ToolChoice  |-> ToolChoiceOf(req)],
         err |-> "nil"]

\* json.Marshal of a DeepSeekRequest: the fields tagged omitempty
\* (temperature, max_tokens, tools, tool_choice) are left out when they hold
\* the zero value of their type.
MarshalRequest(r) ==
    LET present == {"model", "messages", "stream"}
                   \cup (IF r.Temperature # 0 THEN {"temperature"} ELSE {})
                   \cup (IF r.MaxTokens # 0 THEN {"max_tokens"} ELSE {})
                   \cup (IF Len(r.Tools) > 0 THEN {"tools"} ELSE {})
                   \cup (IF r.ToolChoice # "" THEN {"tool_choice"} ELSE {})
    IN  [f \in present |->
            CASE f = "model"       -> r.Model
              [] f = "messages"    -> r.Messages
              [] f = "stream"      -> r.Stream
              [] f = "temperature" -> r.Temperature
              [] f = "max_tokens"  -> r.MaxTokens
              [] f = "tools"       -> r.Tools
              [] f = "tool_choice" -> r.ToolChoice]

\* ---- the inputs ----
FrontModels == (DOMAIN newModelMapping) \cup {"o1", "o1-preview", "claude-3"}
Temperatures == {NilPtr, Ptr(-5), Ptr(0), Ptr(7), Ptr(10), Ptr(25)}
MaxTokenValues == {NilPtr, Ptr(0), Ptr(100), Ptr(2001)}

Fn1 == [Name |-> "get_weather", Description |-> "weather", Parameters |-> "schema1"]
Fn2 == [Name |-> "get_time", Description |-> "time", Parameters |-> "schema2"]
Tool1 == [Type |-> "function", Function |-> Fn2]

ToolLists == {<<>>, <<Tool1>>}
FunctionLists == {<<>>, <<Fn1>>, <<Fn1, Fn2>>}
ToolChoices == {Choice("nil", ""), Choice("string", "auto"), Choice("string", "none"),
                Choice("string", "required"), Choice("map", "function"),
                Choice("map", ""), Choice("number", "")}

UserMsg == Msg("user", "hi", "", <<>>, "", "")
FunctionMsg == Msg("function", "22C", "", <<>>, "call_1", "get_weather")
AssistantMsg == Msg("assistant", "", "thinking", <<Call("call_1", "", "get_weather", "{\"city\":1}")>>, "", "")
MessageLists == {<<UserMsg>>, <<UserMsg, AssistantMsg, FunctionMsg>>}

ConfiguredModels == {"deepseek-reasoner", "deepseek-chat"}

RelayNotStarted ==
    /\ upstream = <<>>
    /\ originalModel = ""
    /\ pos = 0
    /\ pc = "idle"
    /\ cancelled = FALSE
    /\ timedOut = FALSE
    /\ bodyClosed = FALSE
    /\ out = <<>>
    /\ flushed = 0
    /\ endedBy = "none"
    /\ outAtCancel = -1
    /\ pcAtCancel = "none"
    /\ scansAfterCancel = 0

TranslateInit ==
    /\ config \in [DeepSeekModel : ConfiguredModels]
    /\ openaiReq \in [Model : FrontModels, Messages : MessageLists,
                      Stream : BOOLEAN, Temperature : Temperatures,
                      MaxTokens : MaxTokenValues, Tools : ToolLists,
                      ToolChoice : ToolChoices, Functions : FunctionLists]
    /\ clientReq = openaiReq
    /\ isCursor \in BOOLEAN
    /\ deepseekReq = <<>>
    /\ convErr = "nil"
    /\ wire = <<>>
    /\ tpc = "parsed"
    /\ RelayNotStarted
    /\ CallNotStarted
    /\ GateNotStarted
    /\ ConcNotStarted

\* the Cursor limit on the size of the answer
CursorMaxTokens == 2000
CursorDefaultTokens == 1500

\* handleChatCompletions lines 126-131: a Cursor request without max_tokens,
\* or with more than 2000, is given 1500
CursorCap ==
    /\ tpc = "parsed"
    /\ openaiReq' = IF isCursor /\ (openaiReq.MaxTokens = NilPtr
                                    \/ openaiReq.MaxTokens[1] > CursorMaxTokens)
                    THEN [openaiReq EXCEPT !.MaxTokens = Ptr(CursorDefaultTokens)]
                    ELSE openaiReq
    /\ tpc' = "capped"
    /\ UNCHANGED <<config, isCursor, clientReq, deepseekReq, convErr, wire, relayVars, callVars, gateVars, concVars>>

\* handleChatCompletions line 133: the request is translated
Translate ==
    /\ tpc = "capped"
    /\ LET r == convertToDeepSeekRequest(openaiReq)
       IN  /\ deepseekReq' = r.req
           /\ convErr' = r.err
    /\ tpc' = "converted"
    /\ UNCHANGED <<config, isCursor, clientReq, openaiReq, wire, relayVars, callVars, gateVars, concVars>>

\* lines 134-149 and json.Marshal(req) of sendRequestToDeepSeek /
\* sendStreamingRequestToDeepSeek: with a nil error the request goes on the
\* wire
SendRequest ==
    /\ tpc = "converted"
    /\ convErr = "nil"
    /\ wire' = MarshalRequest(deepseekReq)
    /\ tpc' = "sent"
    /\ UNCHANGED <<config, isCursor, clientReq, openaiReq, deepseekReq, convErr, relayVars, callVars, gateVars, concVars>>

TranslateNext == CursorCap \/ Translate \/ SendRequest

TranslateSpec == TranslateInit /\ [][TranslateNext]_vars

\* ------------------------------------------------------------------------
\* Request translation: properties
\* ------------------------------------------------------------------------
Translated == tpc \in {"converted", "sent"}

RequestFields == {"Model", "Messages", "Stream", "Temperature", "MaxTokens",
                  "Tools", "ToolChoice"}

\* C6: convertToDeepSeekRequest never fails: every front request yields a
\* backend request and a nil error.
C6_TranslateNeverFails ==
    Translated =>
        /\ convErr = "nil"
        /\ DOMAIN deepseekReq = RequestFields
        /\ deepseekReq.Model \in {"deepseek-chat", "deepseek-coder", "deepseek-reasoner"}

C6_Witness ==
    /\ tpc = "sent"
    /\ openaiReq.Model \notin DOMAIN newModelMapping
    /\ openaiReq.Tools = <<>>
    /\ openaiReq.Functions # <<>>
    /\ openaiReq.Temperature = NilPtr
    /\ openaiReq.ToolChoice = Choice("number", "")
    /\ wire["tool_choice"] = "auto"

\* C7: a request whose model maps to deepseek-reasoner goes on the wire
\* without a temperature field, whatever temperature the client supplied.
C7_ReasonerHasNoTemperature ==
    (tpc = "sent" /\ wire["model"] = ReasonerModel) =>
        "temperature" \notin DOMAIN wire

C7_Witness ==
    /\ tpc = "sent"
    /\ wire["model"] = ReasonerModel
    /\ openaiReq.Temperature = Ptr(25)

\* C8: a request whose model maps to a backend model other than the
\* reasoner goes on the wire with a temperature field: the client's value
\* when the client supplied one, 0.7 otherwise.
C8_OtherModelsCarryTemperature ==
    (tpc = "sent" /\ wire["model"] # ReasonerModel) =>
        /\ "temperature" \in DOMAIN wire
        /\ wire["temperature"] =
              (IF openaiReq.Temperature # NilPtr THEN openaiReq.Temperature[1]
               ELSE DefaultTemperature)

\* C9: a front model found in the mapping table is mapped to its entry,
\* every other identifier to the configured default backend model
\* (DEEPSEEK_MODEL), and the mapping never fails.
C9_UnknownModelGetsConfiguredDefault ==
    Translated =>
        /\ convErr = "nil"
        /\ deepseekReq.Model =
              (IF openaiReq.Model \in DOMAIN newModelMapping
               THEN newModelMapping[openaiReq.Model]
               ELSE config.DeepSeekModel)

\* the table of the README, section "supported models"
ReadmeTable ==
    [m \in {"gpt-4o", "gpt-4", "gpt-3.5-turbo", "o1", "o1-preview",
            "deepseek-reasoner", "deepseek-coder"} |->
        CASE m \in {"gpt-4o", "gpt-4", "gpt-3.5-turbo"}         -> "deepseek-chat"
          [] m \in {"o1", "o1-preview", "deepseek-reasoner"}    -> "deepseek-reasoner"
          [] m = "deepseek-coder"                               -> "deepseek-coder"]

\* C10: the model mapping follows the documented table.
C10_MappingFollowsReadme ==
    (Translated /\ openaiReq.Model \in DOMAIN ReadmeTable) =>
        deepseekReq.Model = ReadmeTable[openaiReq.Model]

\* C11: the max_tokens the backend receives is the client's when the client
\* supplied one, and the field is absent when the client supplied none
C11_MaxTokensCopiedVerbatim ==
    tpc = "sent" =>
        IF clientReq.MaxTokens # NilPtr
        THEN "max_tokens" \in DOMAIN wire /\ wire.max_tokens = clientReq.MaxTokens[1]
        ELSE "max_tokens" \notin DOMAIN wire

\* C12: the tool_choice sent to the backend is "none" when the client asked
\* for the string "none" and "auto" for every other input (nil, "auto", any
\* other string, an object pinning a function, any other value); the request
\* is never rejected
HasToolsOrFunctions == clientReq.Tools # <<>> \/ clientReq.Functions # <<>>
C12_ToolChoiceIsAutoOrNone ==
    (Translated /\ HasToolsOrFunctions) =>
        /\ convErr = "nil"
        /\ deepseekReq.ToolChoice \in {"auto", "none"}
        /\ deepseekReq.ToolChoice =
              (IF clientReq.ToolChoice = Choice("string", "none") THEN "none" ELSE "auto")
        /\ tpc = "sent" => /\ "tool_choice" \in DOMAIN wire
                           /\ wire.tool_choice = deepseekReq.ToolChoice

C12_Witness ==
    /\ tpc = "sent"
    /\ clientReq.Tools # <<>>
    /\ clientReq.ToolChoice = Choice("map", "function")
    /\ wire.tool_choice = "auto"

\* C13: without tools and with legacy functions the backend gets one
\* "function" tool per legacy function, in order, wrapping it unchanged, and
\* the classified tool_choice; with tools they are copied and the legacy
\* functions ignored; with neither the backend request has no tools and no
\* tool_choice
Wrapped(functions) ==
    [i \in 1..Len(functions) |-> [Type |-> "function", Function |-> functions[i]]]
C13_LegacyFunctionsBecomeTools ==
    tpc = "sent" =>
        IF clientReq.Tools # <<>>
        THEN /\ "tools" \in DOMAIN wire /\ wire.tools = clientReq.Tools
             /\ "tool_choice" \in DOMAIN wire
             /\ wire.tool_choice = convertToolChoice(clientReq.ToolChoice)
        ELSE IF clientReq.Functions # <<>>
             THEN /\ "tools" \in DOMAIN wire
                  /\ Len(wire.tools) = Len(clientReq.Functions)
                  /\ wire.tools = Wrapped(clientReq.Functions)
                  /\ "tool_choice" \in DOMAIN wire
                  /\ wire.tool_choice = convertToolChoice(clientReq.ToolChoice)
             ELSE /\ "tools" \notin DOMAIN wire
                  /\ "tool_choice" \notin DOMAIN wire

C13_Witness ==
    /\ tpc = "sent"
    /\ clientReq.Tools = <<>>
    /\ clientReq.Functions = <<Fn1, Fn2>>
    /\ Len(wire.tools) = 2
    /\ wire.tools[2].Function = Fn2

\* C14: the normalized messages are as many as the input's, in the same
\* order; role "function" becomes "tool" and every other role stays; content,
\* name and tool_call_id stay; the tool calls keep their count, order, ids,
\* function names and argument strings; the input messages are not modified
C14_MessagesNormalized ==
    Translated =>
        LET in  == clientReq.Messages
            res == deepseekReq.Messages
        IN  /\ openaiReq.Messages = in
            /\ Len(res) = Len(in)
            /\ \A i \in 1..Len(in) :
                  /\ res[i].Role = (IF in[i].Role = "function" THEN "tool" ELSE in[i].Role)
                  /\ res[i].Content = in[i].Content
                  /\ res[i].Name = in[i].Name
                  /\ res[i].ToolCallID = in[i].ToolCallID
                  /\ Len(res[i].ToolCalls) = Len(in[i].ToolCalls)
                  /\ \A j \in 1..Len(in[i].ToolCalls) :
                        /\ res[i].ToolCalls[j].ID = in[i].ToolCalls[j].ID
                        /\ res[i].ToolCalls[j].Function = in[i].ToolCalls[j].Function

C14_Witness ==
    /\ Translated
    /\ Len(clientReq.Messages) = 3
    /\ clientReq.Messages[3].Role = "function"
    /\ deepseekReq.Messages[3].Role = "tool"
    /\ deepseekReq.Messages[2].ToolCalls[1].ID = "call_1"

\* ------------------------------------------------------------------------
\* The backend call and the answer to the client: model
\* ------------------------------------------------------------------------
MaxChoices == 2

\* ---- what the backend can answer ----
Usage(prompt, completion, total) ==
    [PromptTokens |-> prompt, CompletionTokens |-> completion, TotalTokens |-> total]
RespChoice(index, message, finishReason) ==
    [Index |-> index, Message |-> message, FinishReason |-> finishReason]
DeepSeekResponse(id, object, created, model, choices, usage) ==
    [ID |-> id, Object |-> object, Created |-> created, Model |-> model,
     Choices |-> choices, Usage |-> usage]

\* the value json Decode leaves in a DeepSeekResponse no field of which is
\* in the body
ZeroResponse == DeepSeekResponse("", "", 0, "", <<>>, Usage(0, 0, 0))

PlainMsg == Msg("assistant", "answer", "", <<>>, "", "")
ReasonedMsg == Msg("assistant", "answer", "thoughts", <<>>, "", "")
CallingMsg == Msg("assistant", "", "thoughts",
                  <<Call("call_7", "function", "get_weather", "{\"city\":1}")>>, "", "")
NamedMsg == Msg("assistant", "answer", "", <<>>, "call_9", "helper")

BackendChoices == {RespChoice(0, PlainMsg, "stop"), RespChoice(1, ReasonedMsg, "stop"),
                   RespChoice(0, CallingMsg, "tool_calls"), RespChoice(2, NamedMsg, "length")}
BackendModels == {"deepseek-reasoner", "deepseek-chat"}
Responses ==
    {DeepSeekResponse("chatcmpl-1", "chat.completion", 1700000000, m, cs, u) :
        m \in BackendModels, cs \in SeqsUpTo(BackendChoices, MaxChoices),
        u \in {Usage(3, 5, 8)}}
    \cup {ZeroResponse}

\* a response body: how it is coded on the wire ("identity", "gzip",
\* "deflate"), whether the text under the coding is JSON, and the response
\* that JSON denotes
Body(coding, text, resp) == [coding |-> coding, text |-> text, resp |-> resp]
ErrorText == Body("identity", "error", ZeroResponse)
NoBody == Body("identity", "none", ZeroResponse)

\* the answer to one POST: conn "failed" when client.Do returns an error
\* (refused, reset, timed out), else the status line, the Content-Encoding
\* header and the body
Reply(conn, status, encoding, body) ==
    [conn |-> conn, status |-> status, encoding |-> encoding, body |-> body]
NoReply == Reply("none", 0, "", NoBody)

StatusOK == 200
ErrorStatuses == {201, 204, 400, 500}

FailedReplies == {Reply("failed", 0, "", NoBody)}
StatusReplies ==
    {Reply("ok", st, "", b) :
        st \in ErrorStatuses,
        b \in {ErrorText, Body("identity", "json", CHOOSE r \in Responses : Len(r.Choices) = 1)}}
SyncOKReplies ==
    {Reply("ok", StatusOK, "", Body("identity", "json", r)) : r \in Responses}
    \cup {Reply("ok", StatusOK, "gzip", Body("gzip", "json", r)) : r \in Responses}
    \cup {Reply("ok", StatusOK, "gzip", Body("identity", "json", ZeroResponse)),
          Reply("ok", StatusOK, "deflate", Body("deflate", "json", ZeroResponse)),
          Reply("ok", StatusOK, "", Body("identity", "garbage", ZeroResponse))}
StreamOKReplies == {Reply("ok", StatusOK, "", Body("identity", "stream", ZeroResponse))}

\* ---- errors ----
\* an error value: kind "nil", "do" (client.Do failed), "status" (the
\* message holds the status code and the body), "gzip", "decode"
Err(kind, status, body) == [kind |-> kind, status |-> status, body |-> body]
NoError == Err("nil", 0, NoBody)

\* ---- the transport functions ----
\* lines 366-375 of sendRequestToDeepSeek and 428-439 of
\* sendStreamingRequestToDeepSeek: the result of client.Do and of the status
\* test
StatusErrorOf(rp) ==
    IF rp.conn = "failed" THEN Err("do", 0, NoBody)
    ELSE IF rp.status # StatusOK THEN Err("status", rp.status, rp.body)
    ELSE NoError

\* lines 377-394: the reader over the body and the json Decode
DecodeOf(rp) ==
    IF rp.encoding = "gzip" /\ rp.body.coding # "gzip"
    THEN [resp |-> ZeroResponse, err |-> Err("gzip", 0, NoBody)]
    ELSE IF (rp.encoding # "gzip" /\ rp.body.coding # "identity") \/ rp.body.text # "json"
         THEN [resp |-> ZeroResponse, err |-> Err("decode", 0, NoBody)]
         ELSE [resp |-> rp.body.resp, err |-> NoError]

sendRequestToDeepSeek(rp) ==
    IF StatusErrorOf(rp).kind # "nil"
    THEN [resp |-> ZeroResponse, err |-> StatusErrorOf(rp)]
    ELSE DecodeOf(rp)

sendStreamingRequestToDeepSeek(rp) == [err |-> StatusErrorOf(rp)]

\* ---- the response translator ----
\* a merge that also keeps the trace in a field of its own
messageMapMergedBoth(message) ==
    LET finalContent == IF message.ReasoningContent # ""
                        THEN message.ReasoningContent \o "\n\n" \o message.Content
                        ELSE message.Content
        keys == {"role", "content"}
                \cup (IF message.ReasoningContent # "" THEN {"reasoning_content"} ELSE {})
                \cup (IF Len(message.ToolCalls) > 0 THEN {"tool_calls"} ELSE {})
    IN  [k \in keys |->
            CASE k = "role"              -> message.Role
              [] k = "content"           -> finalContent
              [] k = "reasoning_content" -> message.ReasoningContent
              [] k = "tool_calls"        -> message.ToolCalls]

\* handlers.go lines 22-49: the message of one choice, the reasoning trace
\* merged into the content
messageMapMerged(message) ==
    LET finalContent == IF message.ReasoningContent # ""
                        THEN message.ReasoningContent \o "\n\n" \o message.Content
                        ELSE message.Content
        keys == {"role", "content"}
                \cup (IF Len(message.ToolCalls) > 0 THEN {"tool_calls"} ELSE {})
    IN  [k \in keys |->
            CASE k = "role"       -> message.Role
              [] k = "content"    -> finalContent
              [] k = "tool_calls" -> message.ToolCalls]

\* part_000 line 474
ReasoningNames == {"deepseek-reasoner", "o1", "o1-preview", "o1-mini"}

\* part_000 lines 478-515: the message of one choice, the reasoning trace in
\* a field of its own
messageMapSeparate(message, isReasoningModel) ==
    LET keys == {"role", "content"}
                \cup (IF isReasoningModel /\ message.ReasoningContent # ""
                      THEN {"reasoning_content"} ELSE {})
                \cup (IF Len(message.ToolCalls) > 0 THEN {"tool_calls"} ELSE {})
                \cup (IF message.Name # "" THEN {"name"} ELSE {})
                \cup (IF message.ToolCallID # "" THEN {"tool_call_id"} ELSE {})
    IN  [k \in keys |->
            CASE k = "role"              -> message.Role
              [] k = "content"           -> message.Content
              [] k = "reasoning_content" -> message.ReasoningContent
              [] k = "tool_calls"        -> message.ToolCalls
              [] k = "name"              -> message.Name
              [] k = "tool_call_id"      -> message.ToolCallID]

processedChoices(rev, resp, model) ==
    [i \in 1..Len(resp.Choices) |->
        LET choice == resp.Choices[i] IN
        [index         |-> choice.Index,
         finish_reason |-> choice.FinishReason,
         message       |-> IF rev = "handlers.go"
                           THEN messageMapMerged(choice.Message)
                           ELSE messageMapSeparate(choice.Message,
                                                   model \in ReasoningNames)]]

\* a translator that lets the backend's model name through
convertToOpenAIResponseBackendModel(rev, resp, model) ==
    [id      |-> resp.ID,
     object  |-> "chat.completion",
     created |-> resp.Created,
     model   |-> resp.Model,
     choices |-> processedChoices(rev, resp, model),
     usage   |-> resp.Usage]

\* handlers.go lines 51-63, part_000 lines 517-533
convertToOpenAIResponse(rev, resp, model) ==
    [id      |-> resp.ID,
     object  |-> "chat.completion",
     created |-> resp.Created,
     model   |-> model,
     choices |-> processedChoices(rev, resp, model),
     usage   |-> resp.Usage]

\* ---- the http.ResponseWriter ----
\* header: the Content-Type in w.Header(); status: the status line written
\* (0: none yet); sentType: the Content-Type that went out with it; body:
\* the Write calls that succeeded
NewWriter == [header |-> "", status |-> 0, sentType |-> "", body |-> <<>>]
SetContentType(rw, type) == [rw EXCEPT !.header = type]
WriteHeader(rw, code) ==
    IF rw.status # 0 THEN rw
    ELSE [rw EXCEPT !.status = code, !.sentType = rw.header]
Write(rw, data, ok) ==
    LET h == WriteHeader(rw, StatusOK)
    IN  IF ok THEN [h EXCEPT !.body = Append(@, data)] ELSE h

\* utils.go writeJSONResponse
writeJSONResponse(rw, data, ok) ==
    [w   |-> Write(SetContentType(rw, "application/json; charset=utf-8"), data, ok),
     err |-> IF ok THEN "nil" ELSE "write"]

\* utils.go handleError; a Write that failed fails again inside http.Error
ErrorBody(err, statusCode) ==
    [kind |-> "error", type |-> "api_error", code |-> statusCode, message |-> err]
FrontBody(resp) == [kind |-> "front", resp |-> resp]
handleError(rw, err, statusCode, ok) ==
    LET r == writeJSONResponse(WriteHeader(rw, statusCode), ErrorBody(err, statusCode), ok)
    IN  IF r.err = "nil" THEN r.w
        ELSE Write(WriteHeader(SetContentType(r.w, "text/plain; charset=utf-8"), 500),
                   "plain", FALSE)

StatusBadGateway == 502

\* a Write can fail only when the client is no longer there
WriteOutcomes == IF clientGone THEN BOOLEAN ELSE {TRUE}

\* ---- the inputs ----
CallModels == {"gpt-4", "o3", "o1", "deepseek-reasoner"}
Revisions == {"handlers.go", "part_000"}
CallRequest(model, stream) ==
    [Model |-> model, Messages |-> <<UserMsg>>, Stream |-> stream,
     Temperature |-> NilPtr, MaxTokens |-> NilPtr, Tools |-> <<>>,
     ToolChoice |-> Choice("nil", ""), Functions |-> <<>>]

\* handleChatCompletions has translated the request and is about to call
\* handleStreamingResponse or handleNormalResponse (lines 143-149)
CallInit ==
    /\ config = [DeepSeekModel |-> "deepseek-reasoner"]
    /\ isCursor = FALSE
    /\ openaiReq \in {CallRequest(m, s) : m \in CallModels, s \in BOOLEAN}
    /\ clientReq = openaiReq
    /\ deepseekReq = convertToDeepSeekRequest(openaiReq).req
    /\ convErr = "nil"
    /\ wire = <<>>
    /\ tpc = "converted"
    /\ RelayNotStarted
    /\ revision \in Revisions
    /\ cpc = "start"
    /\ posts = 0
    /\ reply = NoReply
    /\ sendErr = NoError
    /\ deepseekResp = ZeroResponse
    /\ openaiResp = NilMap
    /\ clientGone = FALSE
    /\ w = NewWriter
    /\ GateNotStarted
    /\ ConcNotStarted

\* the client closes its connection while the request is in progress
ClientGone ==
    /\ cpc \in {"start", "returned"}
    /\ ~clientGone
    /\ clientGone' = TRUE
    /\ UNCHANGED <<revision, cpc, posts, reply, sendErr, deepseekResp, openaiResp, w,
                   relayVars, transVars, gateVars, concVars>>

\* a transport that posts the request again when the call failed
SendSyncRetry ==
    /\ cpc = "start"
    /\ ~deepseekReq.Stream
    /\ \E rp \in FailedReplies \cup StatusReplies \cup SyncOKReplies :
          /\ reply' = rp
          /\ sendErr' = sendRequestToDeepSeek(rp).err
          /\ deepseekResp' = sendRequestToDeepSeek(rp).resp
          /\ posts' = IF sendRequestToDeepSeek(rp).err.kind # "nil"
                      THEN posts + 2 ELSE posts + 1
    /\ cpc' = "returned"
    /\ UNCHANGED <<revision, openaiResp, clientGone, w, relayVars, transVars, gateVars, concVars>>

\* handleNormalResponse line 322: sendRequestToDeepSeek posts the request
\* and returns
SendSync ==
    /\ cpc = "start"
    /\ ~deepseekReq.Stream
    /\ \E rp \in FailedReplies \cup StatusReplies \cup SyncOKReplies :
          /\ reply' = rp
          /\ sendErr' = sendRequestToDeepSeek(rp).err
          /\ deepseekResp' = sendRequestToDeepSeek(rp).resp
    /\ posts' = posts + 1
    /\ cpc' = "returned"
    /\ UNCHANGED <<revision, openaiResp, clientGone, w, relayVars, transVars, gateVars, concVars>>

\* a streaming handler that starts the relay after a failed call
StreamingErrorRelayed ==
    /\ cpc = "returned"
    /\ deepseekReq.Stream
    /\ sendErr.kind # "nil"
    /\ out' = <<SentinelFrame>>
    /\ cpc' = "done"
    /\ UNCHANGED <<upstream, pos, pc, originalModel, cancelled, timedOut, bodyClosed,
                   flushed, endedBy, outAtCancel, pcAtCancel, scansAfterCancel>>
    /\ UNCHANGED <<revision, posts, reply, sendErr, deepseekResp, openaiResp,
                   clientGone, w, transVars, gateVars, concVars>>

\* a handler that goes on to the translator after a failed call
NormalErrorTranslated ==
    /\ cpc = "returned"
    /\ ~deepseekReq.Stream
    /\ sendErr.kind # "nil"
    /\ openaiResp' = [present |-> TRUE,
                      m |-> convertToOpenAIResponse(revision, deepseekResp,
                                                    openaiReq.Model)]
    /\ \E ok \in WriteOutcomes :
          w' = writeJSONResponse(SetContentType(w, "application/json"),
                                 FrontBody(openaiResp'.m), ok).w
    /\ cpc' = "done"
    /\ UNCHANGED <<revision, posts, reply, sendErr, deepseekResp, clientGone,
                   relayVars, transVars, gateVars, concVars>>

\* handleNormalResponse lines 323-327: the call failed
NormalError ==
    /\ cpc = "returned"
    /\ ~deepseekReq.Stream
    /\ sendErr.kind # "nil"
    /\ \E ok \in WriteOutcomes :
          w' = handleError(w, sendErr, StatusBadGateway, ok)
    /\ cpc' = "done"
    /\ UNCHANGED <<revision, posts, reply, sendErr, deepseekResp, openaiResp,
                   clientGone, relayVars, transVars, gateVars, concVars>>

\* handleNormalResponse lines 329-339: the call succeeded
NormalSuccess ==
    /\ cpc = "returned"
    /\ ~deepseekReq.Stream
    /\ sendErr.kind = "nil"
    /\ openaiResp' = [present |-> TRUE,
                      m |-> convertToOpenAIResponse(revision, deepseekResp,
                                                    openaiReq.Model)]
    /\ \E ok \in WriteOutcomes :
          w' = writeJSONResponse(SetContentType(w, "application/json"),
                                 FrontBody(openaiResp'.m), ok).w
    /\ cpc' = "done"
    /\ UNCHANGED <<revision, posts, reply, sendErr, deepseekResp, clientGone,
                   relayVars, transVars, gateVars, concVars>>

\* handleStreamingResponse lines 452-466: the SSE headers are set and
\* sendStreamingRequestToDeepSeek posts the request and returns
SendStreaming ==
    /\ cpc = "start"
    /\ deepseekReq.Stream
    /\ \E rp \in FailedReplies \cup StatusReplies \cup StreamOKReplies :
          /\ reply' = rp
          /\ sendErr' = sendStreamingRequestToDeepSeek(rp).err
    /\ posts' = posts + 1
    /\ w' = SetContentType(w, "text/event-stream")
    /\ cpc' = "returned"
    /\ UNCHANGED <<revision, deepseekResp, openaiResp, clientGone, relayVars, transVars, gateVars, concVars>>

\* handleStreamingResponse lines 467-471: the call failed
StreamingError ==
    /\ cpc = "returned"
    /\ deepseekReq.Stream
    /\ sendErr.kind # "nil"
    /\ \E ok \in WriteOutcomes :
          w' = handleError(w, sendErr, StatusBadGateway, ok)
    /\ cpc' = "done"
    /\ UNCHANGED <<revision, posts, reply, sendErr, deepseekResp, openaiResp,
                   clientGone, relayVars, transVars, gateVars, concVars>>

\* the lines of the streams that follow a successful streaming call
StartedLines == {LData1, LDone, LLong}

\* handleStreamingResponse lines 472-480: the relay takes over
StreamingStart ==
    /\ cpc = "returned"
    /\ deepseekReq.Stream
    /\ sendErr.kind = "nil"
    /\ cpc' = "relay"
    /\ upstream' \in SeqsUpTo(StartedLines, MaxLines)
    /\ originalModel' = openaiReq.Model
    /\ pc' = "scan"
    /\ UNCHANGED <<pos, cancelled, timedOut, bodyClosed, out, flushed, endedBy,
                   outAtCancel, pcAtCancel, scansAfterCancel>>
    /\ UNCHANGED <<revision, posts, reply, sendErr, deepseekResp, openaiResp,
                   clientGone, w, transVars, gateVars, concVars>>

CallNext ==
    \/ ClientGone
    \/ SendSync
    \/ NormalError
    \/ NormalSuccess
    \/ SendStreaming
    \/ StreamingError
    \/ StreamingStart

CallSpec == CallInit /\ [][CallNext]_vars

\* ------------------------------------------------------------------------
\* The whole request: handleChatCompletions from the arrival of the request
\* to the end of the answer
\* ------------------------------------------------------------------------
\* the Authorization header: its scheme ("" when the header is missing) and
\* what follows "Bearer "
Auth(scheme, key) == [scheme |-> scheme, key |-> key]
ConfiguredKey == "sk-1"

\* utils.go validateAPIKey
validateAPIKey(auth) ==
    IF auth.scheme = "" THEN "missing"
    ELSE IF auth.scheme # "Bearer" THEN "format"
    ELSE IF auth.key = "" THEN "empty"
    ELSE IF auth.key # ConfiguredKey THEN "invalid"
    ELSE "nil"

\* the body of the request: valid holds when json.Unmarshal into a
\* ChatRequest succeeds, req is the ChatRequest it leaves
HttpBody(valid, req) == [valid |-> valid, req |-> req]
HttpRequest(method, auth, cursor, body) ==
    [method |-> method, auth |-> auth, cursor |-> cursor, body |-> body]

Methods == {"OPTIONS", "GET", "POST"}
Auths == {Auth("", ""), Auth("Basic", "sk-1"), Auth("Bearer", ""),
          Auth("Bearer", "sk-0"), Auth("Bearer", "sk-1")}
Bodies == {HttpBody(FALSE, CallRequest("", FALSE))}
          \cup {HttpBody(TRUE, CallRequest("o3", s)) : s \in BOOLEAN}
HttpRequests ==
    {HttpRequest(m, a, c, b) : m \in Methods, a \in Auths, c \in BOOLEAN, b \in Bodies}

\* server.go handleCORS
handleCORS(rw, method) == IF method = "OPTIONS" THEN WriteHeader(rw, StatusOK) ELSE rw

\* handleCursorError
handleCursorError(rw, ok) ==
    writeJSONResponse(WriteHeader(SetContentType(rw, "application/json"), 503),
                      [kind |-> "error", type |-> "service_unavailable", code |-> "503",
                       message |-> "unavailable"], ok).w

\* lines 108-114, 118-123: the answer to a request that fails a check
Reject(rw, cursor, err, statusCode, ok) ==
    IF cursor THEN handleCursorError(rw, ok) ELSE handleError(rw, err, statusCode, ok)

RequestInit ==
    /\ ConcNotStarted
    /\ httpReq \in HttpRequests
    /\ gpc = "method"
    /\ checks = <<>>
    /\ TransNotStarted
    /\ RelayNotStarted
    /\ revision = "handlers.go"
    /\ cpc = "idle"
    /\ posts = 0
    /\ reply = NoReply
    /\ sendErr = NoError
    /\ deepseekResp = ZeroResponse
    /\ openaiResp = NilMap
    /\ clientGone = FALSE
    /\ w = NewWriter

\* handleChatCompletions lines 85-100: CORS headers, the method, the
\* User-Agent
CheckMethod ==
    /\ gpc = "method"
    /\ checks' = Append(checks, "method")
    /\ IF httpReq.method = "OPTIONS"
       THEN /\ w' = handleCORS(w, httpReq.method)
            /\ gpc' = "rejected"
            /\ UNCHANGED isCursor
       ELSE IF httpReq.method # "POST"
            THEN /\ \E ok \in WriteOutcomes : w' = handleError(w, "method", 405, ok)
                 /\ gpc' = "rejected"
                 /\ UNCHANGED isCursor
            ELSE /\ isCursor' = httpReq.cursor
                 /\ gpc' = "key"
                 /\ UNCHANGED w
    /\ UNCHANGED concVars
    /\ UNCHANGED <<httpReq, config, clientReq, openaiReq, deepseekReq, convErr, wire, tpc,
                   revision, cpc, posts, reply, sendErr, deepseekResp, openaiResp,
                   clientGone, relayVars>>

\* a gate that lets every key through
CheckKeyAlwaysPasses ==
    /\ gpc = "key"
    /\ checks' = Append(checks, "key")
    /\ gpc' = "parse"
    /\ UNCHANGED concVars
    /\ UNCHANGED <<httpReq, w, transVars, revision, cpc, posts, reply, sendErr,
                   deepseekResp, openaiResp, clientGone, relayVars>>

\* lines 108-115: the API key
CheckKey ==
    /\ gpc = "key"
    /\ checks' = Append(checks, "key")
    /\ IF validateAPIKey(httpReq.auth) # "nil"
       THEN /\ \E ok \in WriteOutcomes :
                  w' = Reject(w, isCursor, validateAPIKey(httpReq.auth), 401, ok)
            /\ gpc' = "rejected"
       ELSE /\ gpc' = "parse"
            /\ UNCHANGED w
    /\ UNCHANGED concVars
    /\ UNCHANGED <<httpReq, transVars, revision, cpc, posts, reply, sendErr,
                   deepseekResp, openaiResp, clientGone, relayVars>>

\* lines 117-124: the body
ParseBody ==
    /\ gpc = "parse"
    /\ checks' = Append(checks, "body")
    /\ IF ~httpReq.body.valid
       THEN /\ \E ok \in WriteOutcomes : w' = Reject(w, isCursor, "json", 400, ok)
            /\ gpc' = "rejected"
            /\ UNCHANGED <<clientReq, openaiReq, tpc>>
       ELSE /\ openaiReq' = httpReq.body.req
            /\ clientReq' = httpReq.body.req
            /\ tpc' = "parsed"
            /\ gpc' = "passed"
            /\ UNCHANGED w
    /\ UNCHANGED concVars
    /\ UNCHANGED <<httpReq, config, isCursor, deepseekReq, convErr, wire,
                   revision, cpc, posts, reply, sendErr, deepseekResp, openaiResp,
                   clientGone, relayVars>>

\* lines 134-149: the translated request goes to handleStreamingResponse or
\* handleNormalResponse
Dispatch ==
    /\ gpc = "passed"
    /\ tpc = "converted"
    /\ IF convErr # "nil"
       THEN /\ \E ok \in WriteOutcomes : w' = Reject(w, isCursor, convErr, 500, ok)
            /\ gpc' = "rejected"
            /\ UNCHANGED cpc
       ELSE /\ cpc' = "start"
            /\ gpc' = "dispatched"
            /\ UNCHANGED w
    /\ UNCHANGED concVars
    /\ UNCHANGED <<httpReq, checks, transVars, revision, posts, reply, sendErr,
                   deepseekResp, openaiResp, clientGone, relayVars>>

RequestNext ==
    \/ CheckMethod
    \/ CheckKey
    \/ ParseBody
    \/ CursorCap
    \/ Translate
    \/ Dispatch
    \/ CallNext
    \/ RelayNext

RequestSpec == RequestInit /\ [][RequestNext]_vars

\* ------------------------------------------------------------------------
\* The backend call and the answer to the client: properties
\* ------------------------------------------------------------------------
BackMsg(i) == deepseekResp.Choices[i].Message
FrontMsg(i) == openaiResp.m.choices[i].message
MergedContent(message) ==
    IF message.ReasoningContent # ""
    THEN message.ReasoningContent \o "\n\n" \o message.Content
    ELSE message.Content

\* C15: the front response's model is the model the client asked for, also
\* when the backend's model field differs; id, created and usage are the
\* backend's
C15_ModelIsRequestedModel ==
    openaiResp.present =>
        /\ openaiResp.m.model = clientReq.Model
        /\ openaiResp.m.id = deepseekResp.ID
        /\ openaiResp.m.created = deepseekResp.Created
        /\ openaiResp.m.usage = deepseekResp.Usage

C15_Witness ==
    /\ openaiResp.present
    /\ clientReq.Model = "o3"
    /\ deepseekResp.Model = "deepseek-chat"
    /\ openaiResp.m.model = "o3"
    /\ openaiResp.m.id = "chatcmpl-1"
    /\ openaiResp.m.usage.TotalTokens = 8

\* C16: under the separate-field revision, for a request whose model maps to
\* the reasoning backend model, a non-empty trace of a backend choice is the
\* reasoning_content field of the front message, next to the unchanged
\* content, and an empty trace gives no such field
C16_TraceInSeparateField ==
    (openaiResp.present /\ revision = "part_000" /\ deepseekReq.Model = ReasonerModel) =>
        \A i \in 1..Len(deepseekResp.Choices) :
            /\ FrontMsg(i).content = BackMsg(i).Content
            /\ IF BackMsg(i).ReasoningContent # ""
               THEN /\ "reasoning_content" \in DOMAIN FrontMsg(i)
                    /\ FrontMsg(i).reasoning_content = BackMsg(i).ReasoningContent
               ELSE "reasoning_content" \notin DOMAIN FrontMsg(i)

C18_EveryChoiceAndFieldKept ==
    openaiResp.present =>
        /\ Len(openaiResp.m.choices) = Len(deepseekResp.Choices)
        /\ \A i \in 1..Len(deepseekResp.Choices) :
              /\ openaiResp.m.choices[i].index = deepseekResp.Choices[i].Index
              /\ openaiResp.m.choices[i].finish_reason = deepseekResp.Choices[i].FinishReason
              /\ FrontMsg(i).role = BackMsg(i).Role
              /\ \/ FrontMsg(i).content = BackMsg(i).Content
                 \/ revision = "handlers.go" /\ FrontMsg(i).content = MergedContent(BackMsg(i))
              /\ Len(BackMsg(i).ToolCalls) > 0 =>
                    /\ "tool_calls" \in DOMAIN FrontMsg(i)
                    /\ FrontMsg(i).tool_calls = BackMsg(i).ToolCalls
              /\ BackMsg(i).Name # "" =>
                    /\ "name" \in DOMAIN FrontMsg(i)
                    /\ FrontMsg(i).name = BackMsg(i).Name
              /\ BackMsg(i).ToolCallID # "" =>
                    /\ "tool_call_id" \in DOMAIN FrontMsg(i)
                    /\ FrontMsg(i).tool_call_id = BackMsg(i).ToolCallID

\* C19: when the backend call of the synchronous path fails (no connection,
\* an error status, a body that cannot be decoded) the handler answers with
\* status 502 and one error object, writes no front response, and does not
\* run the translator
Undecodable(rp) ==
    \/ rp.body.text # "json"
    \/ rp.body.coding # (IF rp.encoding = "gzip" THEN "gzip" ELSE "identity")
SyncCallFailed ==
    /\ ~deepseekReq.Stream
    /\ \/ reply.conn = "failed"
       \/ reply.conn = "ok" /\ reply.status >= 400
       \/ reply.conn = "ok" /\ reply.status = StatusOK /\ Undecodable(reply)
C19_FailedCallAnswers502 ==
    (cpc = "done" /\ SyncCallFailed) =>
        /\ w.status = 502
        /\ ~openaiResp.present
        /\ Len(w.body) <= 1
        /\ \A i \in 1..Len(w.body) : w.body[i].kind = "error" /\ w.body[i].code = 502
        /\ ~clientGone => Len(w.body) = 1

C19_Witness ==
    /\ cpc = "done"
    /\ ~deepseekReq.Stream
    /\ reply.status = StatusOK
    /\ reply.body.text = "garbage"
    /\ w.status = 502
    /\ Len(w.body) = 1
    /\ w.body[1].kind = "error"

\* C20: the transport functions return an error that carries the backend's
\* status and body exactly when the status is not 2xx; every 2xx status is
\* a success of the call
Is2xx(status) == status >= 200 /\ status <= 299
C20_ErrorExactlyOnNon2xx ==
    (cpc \in {"returned", "done", "relay"} /\ reply.conn = "ok") =>
        /\ sendErr.kind = "status" <=> ~Is2xx(reply.status)
        /\ sendErr.kind = "status" =>
              sendErr.status = reply.status /\ sendErr.body = reply.body

GateOrder == <<"method", "key", "body">>
C24_GateBeforeTranslation ==
    /\ Len(checks) <= 3
    /\ checks = SubSeq(GateOrder, 1, Len(checks))
    /\ (tpc \in {"converted", "sent"} \/ posts > 0 \/ cpc # "idle") =>
          /\ checks = GateOrder
          /\ httpReq.method = "POST"
          /\ httpReq.auth = Auth("Bearer", ConfiguredKey)
          /\ httpReq.body.valid
    /\ gpc = "rejected" =>
          /\ w.status # 0
          /\ tpc \in {"idle", "parsed", "capped"}
          /\ deepseekReq = <<>>
          /\ posts = 0
          /\ cpc = "idle"

C24_Witness ==
    /\ gpc = "rejected"
    /\ httpReq.method = "POST"
    /\ httpReq.auth = Auth("Bearer", "sk-0")
    /\ httpReq.body.valid
    /\ checks = <<"method", "key">>
    /\ w.status = 401
    /\ posts = 0

\* C29: when the streaming call fails before the relay starts (no
\* connection, an error status) the handler answers with status 502 and one
\* JSON error object; the relay is not started and writes neither a data
\* frame nor a sentinel
StreamCallFailed ==
    /\ deepseekReq.Stream
    /\ \/ reply.conn = "failed"
       \/ reply.conn = "ok" /\ reply.status >= 400
C29_FailedStreamAnswers502 ==
    (cpc = "done" /\ StreamCallFailed) =>
        /\ w.status = 502
        /\ Len(w.body) <= 1
        /\ \A i \in 1..Len(w.body) : w.body[i].kind = "error" /\ w.body[i].code = 502
        /\ ~clientGone => Len(w.body) = 1
        /\ pc = "idle"
        /\ upstream = <<>>
        /\ out = <<>>

C29_Witness ==
    /\ cpc = "done"
    /\ deepseekReq.Stream
    /\ reply.conn = "failed"
    /\ w.status = 502
    /\ Len(w.body) = 1
    /\ w.body[1].kind = "error"
    /\ out = <<>>

\* C30: for a request of a Cursor client the backend request on the wire has
\* a max_tokens of at most 2000, and of 1500 when the client sent none or
\* more than 2000
C30_CursorRequestsAreCapped ==
    (tpc = "sent" /\ isCursor) =>
        /\ "max_tokens" \in DOMAIN wire
        /\ wire.max_tokens <= CursorMaxTokens
        /\ (clientReq.MaxTokens = NilPtr \/ clientReq.MaxTokens[1] > CursorMaxTokens) =>
              wire.max_tokens = CursorDefaultTokens

\* ------------------------------------------------------------------------
\* Streaming requests handled at the same time: net/http runs
\* handleChatCompletions on one goroutine per request
\* ------------------------------------------------------------------------
IdLen == 2

Requests == {1, 2}
ConcStreams == {<<LData1, LDone>>, <<LNoModel, LData1>>}
Seeds == {0, 1}

\* generateRandomRequestID: const chars
Chars == <<"0", "1", "2", "3", "4", "5", "6", "7",
           "8", "9", "a", "b", "c", "d", "e", "f">>

\* math/rand's generator, as a deterministic step on the source's state:
\* Intn advances the source and returns a value below n
Intn(src, n) ==
    LET next == (5 * src + 3) % Len(Chars)
    IN  [src |-> next, value |-> next % n]

\* the locals of one request: the client's model, the backend's stream, the
\* seed its call of rand.Seed used, the X-Request-ID built so far, and the
\* relay's position and writes
Request(model, stream) ==
    [model |-> model, upstream |-> stream, rpc |-> "start", seed |-> NilPtr,
     xid |-> <<>>, pos |-> 0, out |-> <<>>]

ConcInit ==
    /\ reqs \in [Requests -> {Request(m, u) : m \in ClientModels, u \in ConcStreams}]
    /\ randSrc \in Seeds
    /\ RelayNotStarted
    /\ TransNotStarted
    /\ CallNotStarted
    /\ GateNotStarted

\* generateRandomRequestID line 198: rand.Seed(time.Now().UnixNano()) on the
\* global source
Seed(r) ==
    /\ reqs[r].rpc = "start"
    /\ \E now \in Seeds :
          /\ randSrc' = now
          /\ reqs' = [reqs EXCEPT ![r].seed = Ptr(now), ![r].rpc = "draw"]
    /\ UNCHANGED <<relayVars, transVars, callVars, gateVars>>

\* generateRandomRequestID lines 203-205: one round of the loop, one
\* rand.Intn on the global source
Draw(r) ==
    /\ reqs[r].rpc = "draw"
    /\ LET d == Intn(randSrc, Len(Chars))
           xid == Append(reqs[r].xid, Chars[d.value + 1])
       IN  /\ randSrc' = d.src
           /\ reqs' = [reqs EXCEPT ![r].xid = xid,
                                   ![r].rpc = IF Len(xid) = IdLen THEN "relay" ELSE "draw"]
    /\ UNCHANGED <<relayVars, transVars, callVars, gateVars>>

\* processStreamingData: one line of this request's stream, relayed to this
\* request's ResponseWriter with this request's originalModel
RelayLine(r) ==
    /\ reqs[r].rpc = "relay"
    /\ LET q == reqs[r]
           p == ProcessLine(q.upstream[q.pos + 1], q.model)
       IN  reqs' = [reqs EXCEPT ![r].pos = q.pos + 1,
                                ![r].out = q.out \o p.write,
                                ![r].rpc = IF p.stop \/ q.pos + 1 = Len(q.upstream)
                                           THEN "done" ELSE "relay"]
    /\ UNCHANGED <<randSrc, relayVars, transVars, callVars, gateVars>>

ConcNext == \E r \in Requests : Seed(r) \/ Draw(r) \/ RelayLine(r)

ConcurrentSpec == ConcInit /\ [][ConcNext]_vars

\* the X-Request-ID generateRandomRequestID returns when no other request
\* touches the source between its Seed and its last Intn
RECURSIVE Drawn(_, _)
Drawn(src, n) ==
    IF n = 0 THEN <<>>
    ELSE LET d == Intn(src, Len(Chars))
         IN  <<Chars[d.value + 1]>> \o Drawn(d.src, n - 1)

\* C23: under every interleaving each request's output is the one it has
\* when it runs alone, and nothing a request builds takes data from another
\* request: its frames are those of its own stream with its own model, its
\* X-Request-ID is the one drawn from its own seed
C23_RequestsAreIsolated ==
    \A r \in DOMAIN reqs :
        /\ reqs[r].rpc = "done" =>
              reqs[r].out = Relayed(reqs[r].upstream, reqs[r].pos, reqs[r].model)
        /\ reqs[r].rpc \in {"relay", "done"} =>
              reqs[r].xid = Drawn(reqs[r].seed[1], IdLen)

====
